---------------------------- MODULE Spec2Model ----------------------------
(***************************************************************************)
(* A model of the document-to-LaTeX converter (class LatexConverter of     *)
(* run.py).                                                                *)
(*                                                                         *)
(* A text is a sequence of one-character strings.  A LaTeX command that    *)
(* the converter inserts while it rewrites Markdown (\begin{lstlisting},   *)
(* \texttt{, \section{, ...) is one element of the sequence: none of them  *)
(* holds a character that a later pass of parse_markdown looks at (a       *)
(* backtick, '#', '*', '-', a blank or a newline), so no pass can tell the *)
(* difference.  The escape sequences of _escape_latex are spelled out      *)
(* character by character, since whether their characters get escaped      *)
(* again is what is being checked.                                         *)
(***************************************************************************)
EXTENDS Naturals, Sequences, FiniteSets

VARIABLES
    input,            \* the input file (its extension and what the format library reads from it)
    pc,               \* position in the running method
    content,          \* self.content
    raised,           \* the exception that reached the caller of convert, or "none"
    full_document,    \* convert's local full_document
    outfile,          \* the file at output_path
    idx,              \* list scan: index of the next line of `lines`
    in_list,          \* list scan: in_list
    processed_lines   \* list scan: processed_lines

vars == <<input, pc, content, raised, full_document, outfile, idx, in_list, processed_lines>>

---------------------------------------------------------------------------
(* Bounds of the model.                                                    *)

MaxTextLen == 3      \* longest text handed to _escape_latex
MaxLines == 3        \* most lines fed to the list scan
MaxCodeLen == 3      \* longest content of a fenced block or inline code span
MaxSpanLen == 1      \* longest text of a bold or italic span
MaxPadLen == 1       \* longest text around a span or a code block
MaxPages == 2        \* most pages of a PDF
MaxPageLen == 2      \* longest text of a PDF page
MaxRuns == 1         \* most runs of a DOCX paragraph
MaxCols == 2         \* most grid columns of a DOCX table, and cells of a row
MaxRows == 2         \* most rows of a DOCX table
MaxPlainLen == 2     \* longest plain text file

---------------------------------------------------------------------------
(* Texts.                                                                  *)

\* None: what page.extract_text() gives for a page without text
NoValue == <<"None">>

Texts(alphabet, n) == UNION { [1..k -> alphabet] : k \in 0..n }

NonEmptyTexts(alphabet, n) == UNION { [1..k -> alphabet] : k \in 1..n }

RECURSIVE Flatten(_)
Flatten(ss) == IF ss = <<>> THEN <<>> ELSE Head(ss) \o Flatten(Tail(ss))

\* sep.join(parts)
RECURSIVE Join(_, _)
Join(sep, parts) ==
    IF parts = <<>> THEN <<>>
    ELSE IF Len(parts) = 1 THEN parts[1]
    ELSE parts[1] \o sep \o Join(sep, Tail(parts))

\* text.split('\n'): always at least one line
RECURSIVE Split(_)
Split(text) ==
    IF \A i \in 1..Len(text) : text[i] # "\n" THEN <<text>>
    ELSE LET i == CHOOSE j \in 1..Len(text) :
                      text[j] = "\n" /\ \A k \in 1..(j-1) : text[k] # "\n"
         IN  <<SubSeq(text, 1, i-1)>> \o Split(SubSeq(text, i+1, Len(text)))

\* text[i:i+len(pat)] == pat
OccursAt(text, pat, i) ==
    /\ i >= 1
    /\ i + Len(pat) - 1 <= Len(text)
    /\ SubSeq(text, i, i + Len(pat) - 1) = pat

Contains(text, pat) == \E i \in 1..(Len(text) + 1) : OccursAt(text, pat, i)

Count(text, c) == Cardinality({ i \in 1..Len(text) : text[i] = c })

---------------------------------------------------------------------------
(* _escape_latex.                                                          *)

\* The dictionary `chars`, in insertion order: <<key, replacement>>.
chars == <<
    <<"&",  <<"\\", "&">> >>,
    <<"%",  <<"\\", "%">> >>,
    <<"$",  <<"\\", "$">> >>,
    <<"#",  <<"\\", "#">> >>,
    <<"_",  <<"\\", "_">> >>,
    <<"{",  <<"\\", "{">> >>,
    <<"}",  <<"\\", "}">> >>,
    <<"~",  <<"\\", "t", "e", "x", "t", "a", "s", "c", "i", "i",
              "t", "i", "l", "d", "e", "{", "}">> >>,
    <<"^",  <<"\\", "^", "{", "}">> >>,
    <<"\\", <<"\\", "t", "e", "x", "t", "b", "a", "c", "k", "s", "l", "a", "s", "h",
              "{", "}">> >> >>

SpecialChars == { chars[k][1] : k \in 1..Len(chars) }

\* pattern.match at position i: the first alternative of the pattern (the keys
\* joined by '|' in dictionary order) that matches there, 0 when none does.
PatternMatch(text, i) ==
    LET hits == { k \in 1..Len(chars) : text[i] = chars[k][1] }
    IN  IF hits = {} THEN 0
        ELSE CHOOSE k \in hits : \A m \in hits : k <= m

\* pattern.sub(lambda x: chars[x.group()], text) from position i on: one scan of
\* the original text; the replacement is copied to the result and never scanned.
RECURSIVE PatternSub(_, _)
PatternSub(text, i) ==
    IF i > Len(text) THEN <<>>
    ELSE LET k == PatternMatch(text, i)
         IN  (IF k = 0 THEN <<text[i]>> ELSE chars[k][2]) \o PatternSub(text, i + 1)

\* text.replace(key, rep) for a one-character key
RECURSIVE Replace(_, _, _)
Replace(text, key, rep) ==
    IF text = <<>> THEN <<>>
    ELSE (IF Head(text) = key THEN rep ELSE <<Head(text)>>) \o Replace(Tail(text), key, rep)

\* One str.replace per dictionary entry, each over the result of the one before.
RECURSIVE ReplaceEach(_, _)
ReplaceEach(text, k) ==
    IF k > Len(chars) THEN text
    ELSE ReplaceEach(Replace(text, chars[k][1], chars[k][2]), k + 1)

EscapeLatexIterated(text) ==
    IF text = NoValue \/ text = <<>> THEN <<>> ELSE ReplaceEach(text, 1)

_escape_latex(text) ==
    IF text = NoValue \/ text = <<>> THEN <<>> ELSE PatternSub(text, 1)

---------------------------------------------------------------------------
(* Calls of _escape_latex on arbitrary text (specification SpecEscape).    *)

EscapeAlphabet == SpecialChars \cup {"a", "t"}

InitEscape ==
    /\ input \in Texts(EscapeAlphabet, MaxTextLen) \cup {NoValue}
    /\ pc = "call"
    /\ content = <<>>
    /\ raised = "none"
    /\ full_document = <<>>
    /\ outfile = <<>>
    /\ idx = 1
    /\ in_list = FALSE
    /\ processed_lines = <<>>

EscapeCall ==
    /\ pc = "call"
    /\ content' = _escape_latex(input)
    /\ pc' = "returned"
    /\ UNCHANGED <<input, raised, full_document, outfile, idx, in_list, processed_lines>>

NextEscape == EscapeCall

SpecEscape == InitEscape /\ [][NextEscape]_vars

\* The image of one character: its escape sequence, or the character itself.
Image(c) ==
    IF c \in SpecialChars
    THEN chars[CHOOSE k \in 1..Len(chars) : chars[k][1] = c][2]
    ELSE <<c>>

Images(text) == Flatten([i \in 1..Len(text) |-> Image(text[i])])

\* Reads an escaped text back: an escape sequence gives its character, a plain
\* character itself; a special character outside an escape sequence cannot be
\* read and ends the reading with the mark "?!".
RECURSIVE Unescape(_)
Unescape(out) ==
    IF out = <<>> THEN <<>>
    ELSE LET ks == { k \in 1..Len(chars) : OccursAt(out, chars[k][2], 1) }
         IN  IF ks # {}
             THEN LET k == CHOOSE m \in ks : TRUE
                  IN  <<chars[k][1]>>
                        \o Unescape(SubSeq(out, Len(chars[k][2]) + 1, Len(out)))
             ELSE IF Head(out) \in SpecialChars THEN <<"?!">>
             ELSE <<Head(out)>> \o Unescape(Tail(out))

WellEscaped(out) == \A i \in 1..Len(Unescape(out)) : Unescape(out)[i] # "?!"

(* C2: _escape_latex(t) is the concatenation, in order, of the images of   *)
(* the characters of t (a special character's escape sequence, any other   *)
(* character itself); no character of an inserted sequence is escaped      *)
(* again, so the result reads back to t with no special character left     *)
(* outside the inserted sequences; empty or absent text gives "".          *)
C2_EscapeSinglePass ==
    pc = "returned" =>
        IF input = NoValue \/ input = <<>>
        THEN content = <<>>
        ELSE /\ content = Images(input)
             /\ WellEscaped(content)
             /\ Unescape(content) = input

\* A text holding a backslash, a tilde and a brace has been escaped.
C2_Witness ==
    /\ pc = "returned"
    /\ input # NoValue
    /\ Len(input) = 3
    /\ {"\\", "~", "{"} \subseteq { input[i] : i \in 1..Len(input) }

---------------------------------------------------------------------------
(* parse_markdown, step 5: the list scan.                                  *)

BEGIN_ITEMIZE == <<"\\begin{itemize}">>
END_ITEMIZE == <<"\\end{itemize}">>
ITEM == "\\item "

\* The characters of the model's alphabets that \s matches (a line holds no newline).
Whitespace == {" ", "\t"}

\* The first index from i on that holds no whitespace, Len(line) + 1 when none.
RECURSIVE SkipWhitespace(_, _)
SkipWhitespace(line, i) ==
    IF i <= Len(line) /\ line[i] \in Whitespace THEN SkipWhitespace(line, i + 1) ELSE i

\* re.match(r'^\s*-\s+', line): the index after the match, 0 when there is none.
ListMarkerEnd(line) ==
    LET p == SkipWhitespace(line, 1)
    IN  IF /\ p + 1 <= Len(line)
           /\ line[p] = "-"
           /\ line[p + 1] \in Whitespace
        THEN SkipWhitespace(line, p + 1)
        ELSE 0

\* The else branch forgets in_list = False.
ScanStepNoReset(st, line) ==
    IF ListMarkerEnd(line) # 0
    THEN [in_list |-> TRUE,
          processed_lines |->
              st.processed_lines
                \o (IF st.in_list THEN <<>> ELSE <<BEGIN_ITEMIZE>>)
                \o << <<ITEM>> \o SubSeq(line, ListMarkerEnd(line), Len(line)) >>]
    ELSE [in_list |-> st.in_list,
          processed_lines |->
              st.processed_lines
                \o (IF st.in_list THEN <<END_ITEMIZE>> ELSE <<>>)
                \o <<line>>]

\* The else branch appends the line only when no list was open.
ScanStepDropsLine(st, line) ==
    IF ListMarkerEnd(line) # 0
    THEN [in_list |-> TRUE,
          processed_lines |->
              st.processed_lines
                \o (IF st.in_list THEN <<>> ELSE <<BEGIN_ITEMIZE>>)
                \o << <<ITEM>> \o SubSeq(line, ListMarkerEnd(line), Len(line)) >>]
    ELSE [in_list |-> FALSE,
          processed_lines |->
              st.processed_lines
                \o (IF st.in_list THEN <<END_ITEMIZE>> ELSE <<line>>)]

\* One iteration of `for line in lines`, on the loop's state st.
ScanStep(st, line) ==
    IF ListMarkerEnd(line) # 0
    THEN [in_list |-> TRUE,
          processed_lines |->
              st.processed_lines
                \o (IF st.in_list THEN <<>> ELSE <<BEGIN_ITEMIZE>>)
                \o << <<ITEM>> \o SubSeq(line, ListMarkerEnd(line), Len(line)) >>]
    ELSE [in_list |-> FALSE,
          processed_lines |->
              st.processed_lines
                \o (IF st.in_list THEN <<END_ITEMIZE>> ELSE <<>>)
                \o <<line>>]

\* After the loop: `if in_list: processed_lines.append(r'\end{itemize}')`.
ScanClose(st) ==
    IF st.in_list THEN st.processed_lines \o <<END_ITEMIZE>> ELSE st.processed_lines

RECURSIVE ScanFrom(_, _, _)
ScanFrom(st, lines, i) ==
    IF i > Len(lines) THEN st ELSE ScanFrom(ScanStep(st, lines[i]), lines, i + 1)

\* Step 5 as a whole: split, scan, close, join.
ListScan(md) ==
    Join(<<"\n">>,
         ScanClose(ScanFrom([in_list |-> FALSE, processed_lines |-> <<>>], Split(md), 1)))

---------------------------------------------------------------------------
(* The list scan, one loop iteration at a time (specification SpecList).   *)
(* `input` is `lines`, the result of md.split('\n').                       *)

\* Lines with and without a dash, with and without blanks before and after it.
ScanLines ==
    { pre \o dash \o gap \o rest :
        pre \in {<<>>, <<" ">>}, dash \in {<<>>, <<"-">>},
        gap \in {<<>>, <<" ">>}, rest \in {<<>>, <<"a">>} }

InitList ==
    /\ input \in UNION { [1..n -> ScanLines] : n \in 1..MaxLines }
    /\ pc = "scan"
    /\ idx = 1
    /\ in_list = FALSE
    /\ processed_lines = <<>>
    /\ content = <<>>
    /\ raised = "none"
    /\ full_document = <<>>
    /\ outfile = <<>>

ScanLine ==
    /\ pc = "scan"
    /\ idx <= Len(input)
    /\ LET st == ScanStep([in_list |-> in_list, processed_lines |-> processed_lines],
                          input[idx])
       IN  /\ in_list' = st.in_list
           /\ processed_lines' = st.processed_lines
    /\ idx' = idx + 1
    /\ UNCHANGED <<input, pc, content, raised, full_document, outfile>>

ScanFinish ==
    /\ pc = "scan"
    /\ idx > Len(input)
    /\ processed_lines' =
           ScanClose([in_list |-> in_list, processed_lines |-> processed_lines])
    /\ content' = Join(<<"\n">>, processed_lines')
    /\ pc' = "joined"
    /\ UNCHANGED <<input, raised, full_document, outfile, idx, in_list>>

NextList == ScanLine \/ ScanFinish

SpecList == InitList /\ [][NextList]_vars

IsItemLine(line) == line # <<>> /\ line[1] = ITEM

Begins(out) == Count(out, BEGIN_ITEMIZE)
Ends(out) == Count(out, END_ITEMIZE)

(* C4: the scan emits as many \begin{itemize} as \end{itemize} lines once  *)
(* it has finished; while it runs, begins minus ends is 1 when in_list is  *)
(* true and 0 when it is false, and no prefix of the output is nested      *)
(* deeper than 1; every begin is directly followed, and every end directly *)
(* preceded, by an \item line.                                             *)
C4_ItemizeBalanced ==
    /\ pc = "scan" =>
           Begins(processed_lines) = Ends(processed_lines) + (IF in_list THEN 1 ELSE 0)
    /\ pc = "joined" => Begins(processed_lines) = Ends(processed_lines)
    /\ \A k \in 1..Len(processed_lines) :
           LET prefix == SubSeq(processed_lines, 1, k)
           IN  \/ Begins(prefix) = Ends(prefix)
               \/ Begins(prefix) = Ends(prefix) + 1
    /\ \A k \in 1..Len(processed_lines) :
           /\ processed_lines[k] = BEGIN_ITEMIZE =>
                  k < Len(processed_lines) /\ IsItemLine(processed_lines[k + 1])
           /\ processed_lines[k] = END_ITEMIZE =>
                  k > 1 /\ IsItemLine(processed_lines[k - 1])

\* The input ended inside the second of two lists.
C4_Witness ==
    /\ pc = "joined"
    /\ in_list
    /\ Begins(processed_lines) = 2

\* A line is dash-prefixed when it is blanks, a dash, at least one blank, and a
\* rest that starts with no blank; DashRest is the set of such rests (one or none).
DashRest(line) ==
    { SubSeq(line, q + 1, Len(line)) : q \in
        { q \in 2..Len(line) :
            \E p \in 0..(q - 2) :
                /\ \A k \in 1..p : line[k] \in Whitespace
                /\ line[p + 1] = "-"
                /\ \A k \in (p + 2)..q : line[k] \in Whitespace
                /\ (q < Len(line) => line[q + 1] \notin Whitespace) } }

DashPrefixed(line) == DashRest(line) # {}

LineImage(line) ==
    IF DashPrefixed(line)
    THEN <<ITEM>> \o (CHOOSE rest \in DashRest(line) : TRUE)
    ELSE line

\* The output without the emitted \begin{itemize} and \end{itemize} lines.
RECURSIVE WithoutItemize(_)
WithoutItemize(out) ==
    IF out = <<>> THEN <<>>
    ELSE (IF Head(out) \in {BEGIN_ITEMIZE, END_ITEMIZE} THEN <<>> ELSE <<Head(out)>>)
           \o WithoutItemize(Tail(out))

\* The runs of consecutive dash-prefixed lines among the first n lines.
DashRuns(lines, n) ==
    Cardinality({ i \in 1..n :
        DashPrefixed(lines[i]) /\ (i = 1 \/ ~DashPrefixed(lines[i - 1])) })

(* C10: the scan keeps the source order and leaves other lines alone:      *)
(* without the emitted itemize lines the output is, line for line, the     *)
(* lines read so far, a dash-prefixed line as '\item ' and its text after  *)
(* the marker, any other line unchanged; an \end{itemize} directly follows *)
(* the last item of a run and directly precedes the first line that is not *)
(* dash-prefixed, so every run of dash lines gets an environment of its    *)
(* own.                                                                    *)
C10_ScanKeepsOrder ==
    /\ WithoutItemize(processed_lines) = [i \in 1..(idx - 1) |-> LineImage(input[i])]
    /\ Begins(processed_lines) = DashRuns(input, idx - 1)
    /\ \A k \in 1..(Len(processed_lines) - 1) :
           /\ IsItemLine(processed_lines[k]) =>
                  \/ IsItemLine(processed_lines[k + 1])
                  \/ processed_lines[k + 1] = END_ITEMIZE
           /\ processed_lines[k] = END_ITEMIZE =>
                  /\ ~IsItemLine(processed_lines[k + 1])
                  /\ processed_lines[k + 1] # BEGIN_ITEMIZE
    /\ pc = "joined" => Split(content) = processed_lines

\* Two runs of dash lines with a blank line between them have been scanned.
C10_Witness ==
    /\ pc = "joined"
    /\ Len(input) = 3
    /\ DashPrefixed(input[1])
    /\ input[2] = <<>>
    /\ DashPrefixed(input[3])
    /\ Begins(processed_lines) = 2

---------------------------------------------------------------------------
(* parse_markdown, steps 1 to 4: the regular-expression passes.            *)

\* The backtick character (a string of the module cannot hold one).
BT == "<backtick>"
FENCE == <<BT, BT, BT>>
BEGIN_LSTLISTING == "\\begin{lstlisting}"
END_LSTLISTING == "\\end{lstlisting}"
TEXTTT == "\\texttt{"
SECTION == "\\section{"
SUBSECTION == "\\subsection{"
SUBSUBSECTION == "\\subsubsection{"
TEXTBF == "\\textbf{"
TEXTIT == "\\textit{"

\* Where the lazy group (.*?) ends: the least j >= from at which `marker` occurs,
\* with no newline in text[from..j-1] unless the pattern has re.DOTALL; 0 if none.
LazyEnd(text, from, marker, dotall) ==
    LET js == { j \in from..Len(text) :
                  /\ OccursAt(text, marker, j)
                  /\ dotall \/ \A k \in from..(j - 1) : text[k] # "\n" }
    IN  IF js = {} THEN 0 ELSE CHOOSE j \in js : \A m \in js : j <= m

\* Step 1: re.sub(r'```(.*?)```', code_block_repl, md, flags=re.DOTALL), from i on.
RECURSIVE CodeBlocks(_, _)
CodeBlocks(text, i) ==
    IF i > Len(text) THEN <<>>
    ELSE IF OccursAt(text, FENCE, i) /\ LazyEnd(text, i + 3, FENCE, TRUE) # 0
    THEN LET j == LazyEnd(text, i + 3, FENCE, TRUE)
         IN  <<BEGIN_LSTLISTING, "\n">> \o SubSeq(text, i + 3, j - 1)
               \o <<"\n", END_LSTLISTING>> \o CodeBlocks(text, j + 3)
    ELSE <<text[i]>> \o CodeBlocks(text, i + 1)

\* Step 2: re.sub(r'`([^`]+)`', r'\\texttt{\1}', md), from i on.
RECURSIVE InlineCode(_, _)
InlineCode(text, i) ==
    IF i > Len(text) THEN <<>>
    ELSE LET j == LazyEnd(text, i + 1, <<BT>>, TRUE)
         IN  IF text[i] = BT /\ j >= i + 2
             THEN <<TEXTTT>> \o SubSeq(text, i + 1, j - 1) \o <<"}">>
                    \o InlineCode(text, j + 1)
             ELSE <<text[i]>> \o InlineCode(text, i + 1)

\* The index of the first newline from i on, Len(text) + 1 when there is none.
RECURSIVE LineEnd(_, _)
LineEnd(text, i) ==
    IF i > Len(text) \/ text[i] = "\n" THEN i ELSE LineEnd(text, i + 1)

\* Step 3, one pass: re.sub('^' + marker + '(.*)', command + r'\1}', md,
\* flags=re.MULTILINE), from i on.
RECURSIVE Header(_, _, _, _)
Header(text, i, marker, command) ==
    IF i > Len(text) THEN <<>>
    ELSE IF (i = 1 \/ text[i - 1] = "\n") /\ OccursAt(text, marker, i)
    THEN LET e == LineEnd(text, i)
         IN  <<command>> \o SubSeq(text, i + Len(marker), e - 1) \o <<"}">>
               \o Header(text, e, marker, command)
    ELSE <<text[i]>> \o Header(text, i + 1, marker, command)

Headers(text) ==
    LET h1 == Header(text, 1, <<"#", " ">>, SECTION)
        h2 == Header(h1, 1, <<"#", "#", " ">>, SUBSECTION)
    IN  Header(h2, 1, <<"#", "#", "#", " ">>, SUBSUBSECTION)

\* Step 4, one pass: re.sub(marker + '(.*?)' + marker, command + r'\1}', md), from i on.
RECURSIVE Emphasised(_, _, _, _)
Emphasised(text, i, marker, command) ==
    IF i > Len(text) THEN <<>>
    ELSE IF /\ OccursAt(text, marker, i)
            /\ LazyEnd(text, i + Len(marker), marker, FALSE) # 0
    THEN LET j == LazyEnd(text, i + Len(marker), marker, FALSE)
         IN  <<command>> \o SubSeq(text, i + Len(marker), j - 1) \o <<"}">>
               \o Emphasised(text, j + Len(marker), marker, command)
    ELSE <<text[i]>> \o Emphasised(text, i + 1, marker, command)

\* Step 4: the bold pass, then the italic pass.
BoldItalic(text) ==
    Emphasised(Emphasised(text, 1, <<"*", "*">>, TEXTBF), 1, <<"*">>, TEXTIT)

\* The body parse_markdown makes of the file's text: steps 1 to 5 in order.
MarkdownBody(md) ==
    ListScan(BoldItalic(Headers(InlineCode(CodeBlocks(md, 1), 1))))

---------------------------------------------------------------------------
(* parse_markdown on Markdown files (specification SpecMarkdown).  `input` *)
(* describes the file: a fenced code block, an inline code span, or a line *)
(* with a bold and an italic span, each with text around it.               *)

FencedFiles ==
    [kind : {"fenced"},
     pre  : Texts({"a"}, MaxPadLen),
     code : Texts({"a", "#", " ", "*", BT, "-"}, MaxCodeLen),
     post : Texts({"a"}, MaxPadLen)]

InlineFiles ==
    [kind : {"inline"},
     pre  : Texts({"a", "*"}, MaxPadLen),
     code : NonEmptyTexts({"a", "#", " ", "*", "-"}, MaxCodeLen),
     post : Texts({"a", "*"}, MaxPadLen)]

SpanFiles ==
    [kind  : {"spans"},
     first : {"bold", "italic"},
     pre   : Texts({"a", BT}, MaxPadLen),
     x     : NonEmptyTexts({"a", "b"}, MaxSpanLen),
     mid   : Texts({"a", BT}, MaxPadLen),
     y     : NonEmptyTexts({"a", "b"}, MaxSpanLen),
     post  : Texts({"a", BT}, MaxPadLen)]

Bold(x) == <<"*", "*">> \o x \o <<"*", "*">>
Italic(y) == <<"*">> \o y \o <<"*">>

\* f.read(): the text of the file that `file` describes.
FileText(file) ==
    CASE file.kind = "fenced" -> file.pre \o FENCE \o file.code \o FENCE \o file.post
      [] file.kind = "inline" -> file.pre \o <<BT>> \o file.code \o <<BT>> \o file.post
      [] file.kind = "spans" ->
            IF file.first = "bold"
            THEN file.pre \o Bold(file.x) \o file.mid \o Italic(file.y) \o file.post
            ELSE file.pre \o Italic(file.y) \o file.mid \o Bold(file.x) \o file.post

InitMarkdown ==
    /\ input \in FencedFiles \cup InlineFiles \cup SpanFiles
    /\ pc = "parse_markdown"
    /\ content = <<>>
    /\ raised = "none"
    /\ full_document = <<>>
    /\ outfile = <<>>
    /\ idx = 1
    /\ in_list = FALSE
    /\ processed_lines = <<>>

ParseMarkdown ==
    /\ pc = "parse_markdown"
    /\ content' = MarkdownBody(FileText(input))
    /\ pc' = "parsed"
    /\ UNCHANGED <<input, raised, full_document, outfile, idx, in_list, processed_lines>>

NextMarkdown == ParseMarkdown

SpecMarkdown == InitMarkdown /\ [][NextMarkdown]_vars

HasNo(text, c) == \A i \in 1..Len(text) : text[i] # c

(* C3: the content of a fenced code block (the text between the opening    *)
(* fence and the first fence after it) is in the body unchanged, between   *)
(* \begin{lstlisting} and \end{lstlisting}, whatever it holds.             *)
C3_FencedCodeVerbatim ==
    (/\ pc = "parsed"
     /\ input.kind = "fenced"
     /\ LazyEnd(input.code \o FENCE, 1, FENCE, TRUE) = Len(input.code) + 1)
    => Contains(content,
                <<BEGIN_LSTLISTING, "\n">> \o input.code \o <<"\n", END_LSTLISTING>>)

(* C5: the text c of an inline code span `c` (not empty, no backtick) is   *)
(* in the body as \texttt{c}, unchanged by the later passes.               *)
C5_InlineCodeVerbatim ==
    (pc = "parsed" /\ input.kind = "inline")
    => Contains(content, <<TEXTTT>> \o input.code \o <<"}">>)

\* The body has \textbf{x} and \textit{y} and no asterisk.
SpansRendered ==
    /\ Contains(content, <<TEXTBF>> \o input.x \o <<"}">>)
    /\ Contains(content, <<TEXTIT>> \o input.y \o <<"}">>)
    /\ HasNo(content, "*")

(* C6: the bold pass runs before the italic pass, so that for every line   *)
(* with a span **x** and a span *y* (x and y not empty, without asterisk   *)
(* or newline; no other asterisk on the line) the body has \textbf{x} and  *)
(* \textit{y} and none of their asterisks: no asterisk of a bold marker is *)
(* taken as an italic marker.                                              *)
C6_BoldBeforeItalic ==
    (pc = "parsed" /\ input.kind = "spans") => SpansRendered

(* C6 on the lines other than those where the italic span comes first and  *)
(* the bold span follows it directly (*y***x**): there it holds.           *)
C6_SeparatedSpans ==
    (/\ pc = "parsed"
     /\ input.kind = "spans"
     /\ ~(input.first = "italic" /\ input.mid = <<>>))
    => SpansRendered

---------------------------------------------------------------------------
(* parse_docx: paragraphs and tables.                                      *)

\* What the lower-cased style name holds as a substring, for the style names
\* of the model.
StyleHas(style, sub) ==
    <<style, sub>> \in { <<"Heading 1", "heading 1">>, <<"Heading 2", "heading 2">>,
                         <<"Heading 3", "heading 3">>, <<"List Bullet", "list">>,
                         <<"List Bullet", "bullet">> }

\* str.strip() for the whitespace of the model's alphabets
RECURSIVE Strip(_)
Strip(text) ==
    IF text = <<>> THEN <<>>
    ELSE IF Head(text) \in Whitespace \cup {"\n"} THEN Strip(Tail(text))
    ELSE IF text[Len(text)] \in Whitespace \cup {"\n"}
    THEN Strip(SubSeq(text, 1, Len(text) - 1))
    ELSE text

\* The loop body of _process_docx_paragraph: one run, escaped and wrapped.
RunText(run) ==
    LET escaped == _escape_latex(run.text)
        bolded  == IF run.bold THEN <<TEXTBF>> \o escaped \o <<"}">> ELSE escaped
    IN  IF run.italic THEN <<TEXTIT>> \o bolded \o <<"}">> ELSE bolded

_process_docx_paragraph(para) ==
    IF Strip(Flatten([i \in 1..Len(para.runs) |-> para.runs[i].text])) = <<>>
    THEN <<>>
    ELSE LET text == Flatten([i \in 1..Len(para.runs) |-> RunText(para.runs[i])])
         IN  IF StyleHas(para.style, "heading 1") THEN <<SECTION>> \o text \o <<"}">>
             ELSE IF StyleHas(para.style, "heading 2")
             THEN <<SUBSECTION>> \o text \o <<"}">>
             ELSE IF StyleHas(para.style, "heading 3")
             THEN <<SUBSUBSECTION>> \o text \o <<"}">>
             ELSE IF StyleHas(para.style, "list") \/ StyleHas(para.style, "bullet")
             THEN BEGIN_ITEMIZE \o <<"\n", ITEM>> \o text \o <<"\n">> \o END_ITEMIZE
             ELSE text \o <<"\n">>

HLINE == "\\hline"
ROW_END == <<" ", "\\", "\\", " ", HLINE>>

\* One iteration of `for row in table.rows`: the rendered row.
TableRow(cells) ==
    Join(<<" ", "&", " ">>, [i \in 1..Len(cells) |-> _escape_latex(Strip(cells[i]))])
      \o ROW_END

_process_docx_table(table) ==
    LET col_spec == <<"|">> \o Flatten([i \in 1..table.num_cols |-> <<"l", "|">>])
        table_content ==
            Join(<<"\n">>, [i \in 1..Len(table.rows) |-> TableRow(table.rows[i])])
    IN  <<"\\begin{table}[H]", "\n", "\\centering", "\n", "\\begin{tabular}", "{">>
          \o col_spec \o <<"}", "\n", HLINE, "\n">> \o table_content
          \o <<"\n", "\\end{tabular}", "\n", "\\end{table}">>

ProcessBlock(block) ==
    IF block.type = "paragraph"
    THEN _process_docx_paragraph(block)
    ELSE _process_docx_table(block)

\* "\n\n".join(filter(None, latex_body))
DocxBody(blocks) ==
    Join(<<"\n", "\n">>,
         SelectSeq([i \in 1..Len(blocks) |-> ProcessBlock(blocks[i])],
                   LAMBDA piece : piece # <<>>))

---------------------------------------------------------------------------
(* _process_docx_table on tables (specification SpecTable).  `input` is    *)
(* the table: its number of grid columns and the cell texts of its rows.   *)

CellTexts == { <<"a">>, <<"&">>, <<" ", "a">> }

Tables ==
    [type     : {"table"},
     num_cols : 1..MaxCols,
     rows     : UNION { [1..m -> UNION { [1..c -> CellTexts] : c \in 0..MaxCols }]
                        : m \in 0..MaxRows }]

InitTable ==
    /\ input \in Tables
    /\ pc = "process_docx_table"
    /\ content = <<>>
    /\ raised = "none"
    /\ full_document = <<>>
    /\ outfile = <<>>
    /\ idx = 1
    /\ in_list = FALSE
    /\ processed_lines = <<>>

ProcessTable ==
    /\ pc = "process_docx_table"
    /\ content' = _process_docx_table(input)
    /\ pc' = "rendered"
    /\ UNCHANGED <<input, raised, full_document, outfile, idx, in_list, processed_lines>>

NextTable == ProcessTable

SpecTable == InitTable /\ [][NextTable]_vars

\* The pieces of a text between its \hline commands.
RECURSIVE HlinePieces(_)
HlinePieces(text) ==
    IF HasNo(text, HLINE) THEN <<text>>
    ELSE LET i == CHOOSE j \in 1..Len(text) :
                      text[j] = HLINE /\ \A k \in 1..(j - 1) : text[k] # HLINE
         IN  <<SubSeq(text, 1, i - 1)>> \o HlinePieces(SubSeq(text, i + 1, Len(text)))

\* The '&' of a text that no backslash escapes.
Separators(text) ==
    Cardinality({ i \in 1..Len(text) : text[i] = "&" /\ (i = 1 \/ text[i - 1] # "\\") })

ColumnSpec(n) == <<"|">> \o Flatten([i \in 1..n |-> <<"l", "|">>])

(* C9: a table of n columns and m rows gives one tabular with n            *)
(* left-aligned bordered columns and m row terminators, and each rendered  *)
(* row has n cells, that is n-1 unescaped '&', whatever the cells hold and *)
(* however many cells the row has.                                         *)
C9_TableShape ==
    pc = "rendered" =>
        LET pieces == HlinePieces(content)
            m == Len(input.rows)
            n == input.num_cols
        IN  /\ Contains(content, <<"\\begin{tabular}", "{">> \o ColumnSpec(n) \o <<"}", "\n">>)
            /\ Count(content, "\\begin{tabular}") = 1
            /\ Len(pieces) = m + 2
            /\ \A r \in 1..m :
                   /\ OccursAt(pieces[r + 1], <<" ", "\\", "\\", " ">>,
                               Len(pieces[r + 1]) - 3)
                   /\ Separators(pieces[r + 1]) = n - 1

---------------------------------------------------------------------------
(* parse_pdf and parse_txt.                                                *)

WARNING == <<"%", " [WARNING: No text extracted from PDF]">>

\* str.replace("\n", " ")
Reflow(text) == [i \in 1..Len(text) |-> IF text[i] = "\n" THEN " " ELSE text[i]]

\* `if text:` for what page.extract_text() returned
HasText(page) == page # NoValue /\ page # <<>>

\* The warning is written whenever the last page gave no text.
PdfBodyLastPage(pages) ==
    IF pages = <<>> \/ ~HasText(pages[Len(pages)])
    THEN WARNING
    ELSE Reflow(Join(<<"\n", "\n">>,
                     [i \in 1..Len(SelectSeq(pages, HasText)) |->
                         _escape_latex(SelectSeq(pages, HasText)[i])]))

\* The body parse_pdf makes of the pages' extracted texts.
PdfBody(pages) ==
    LET text_content == [i \in 1..Len(SelectSeq(pages, HasText)) |->
                            _escape_latex(SelectSeq(pages, HasText)[i])]
    IN  IF text_content = <<>>
        THEN WARNING
        ELSE Reflow(Join(<<"\n", "\n">>, text_content))

\* The body parse_txt makes of the file's text.
TxtBody(text) == _escape_latex(text)

---------------------------------------------------------------------------
(* convert (specification SpecConvert).  `input` is the input file: its    *)
(* extension, whether the format library can read it, what it holds, and   *)
(* what is at output_path before the call.                                 *)

PREAMBLE == "<preamble>"
Postamble == <<"\n", "\\end{document}">>

\* No file at output_path, and a file left there by something else.
Absent == <<"<no file>">>
OldFile == <<"<old file>">>

\* str.lower() on the extensions of the model
Lower(ext) ==
    CASE ext = ".DOCX" -> ".docx"
      [] ext = ".Pdf" -> ".pdf"
      [] ext = ".MD" -> ".md"
      [] ext = ".TXT" -> ".txt"
      [] ext = ".TEX" -> ".tex"
      [] OTHER -> ext

Runs == [text : {<<"%">>, <<" ">>}, bold : BOOLEAN, italic : BOOLEAN]

Paragraphs ==
    [type  : {"paragraph"},
     style : {"Normal", "Heading 1", "Heading 2", "Heading 3", "List Bullet"},
     runs  : UNION { [1..k -> Runs] : k \in 0..MaxRuns }]

DocTables ==
    { [type |-> "table", num_cols |-> 2, rows |-> << << <<"&">>, <<"a">> >> >>] }

\* Bodies of no block, of one block, and of a paragraph followed by a table.
DocxFiles ==
    {<<>>} \cup { <<b>> : b \in Paragraphs \cup DocTables }
           \cup { <<b, t>> : b \in Paragraphs, t \in DocTables }

PdfFiles ==
    UNION { [1..k -> Texts({"a", "%"}, MaxPageLen) \cup {NoValue}] : k \in 0..MaxPages }

InputFiles ==
    [ext : {".docx", ".DOCX"}, readable : BOOLEAN, existing : {Absent, OldFile},
     payload : DocxFiles]
    \cup [ext : {".pdf", ".Pdf"}, readable : BOOLEAN, existing : {Absent, OldFile},
          payload : PdfFiles]
    \cup [ext : {".md", ".MD"}, readable : BOOLEAN, existing : {Absent, OldFile},
          payload : Texts({"a", "%", "*"}, MaxPlainLen)]
    \cup [ext : {".txt", ".TXT"}, readable : BOOLEAN, existing : {Absent, OldFile},
          payload : Texts({"a", "%", "\n"}, MaxPlainLen)]
    \cup [ext : {".tex", ".TEX", ""}, readable : BOOLEAN, existing : {Absent, OldFile},
          payload : {<<>>}]

InitConvert ==
    /\ input \in InputFiles
    /\ pc = "convert"
    /\ content = <<>>
    /\ raised = "none"
    /\ full_document = <<>>
    /\ outfile = input.existing
    /\ idx = 1
    /\ in_list = FALSE
    /\ processed_lines = <<>>

\* The output file is opened (and emptied) before the parser runs.
RaiseAfterOpen(exception) ==
    /\ raised' = exception
    /\ pc' = "failed"
    /\ outfile' = <<>>
    /\ UNCHANGED <<input, content, full_document, idx, in_list, processed_lines>>

\* An exception leaves convert: nothing after the raise runs.
Raise(exception) ==
    /\ raised' = exception
    /\ pc' = "failed"
    /\ UNCHANGED <<input, content, full_document, outfile, idx, in_list, processed_lines>>

\* A parser returns with self.content set.
Parsed(body) ==
    /\ content' = body
    /\ pc' = "parsed"
    /\ UNCHANGED <<input, raised, full_document, outfile, idx, in_list, processed_lines>>

ConvertDocx ==
    /\ pc = "convert"
    /\ Lower(input.ext) = ".docx"
    /\ IF input.readable THEN Parsed(DocxBody(input.payload)) ELSE Raise("RuntimeError")

ConvertPdf ==
    /\ pc = "convert"
    /\ Lower(input.ext) = ".pdf"
    /\ IF input.readable THEN Parsed(PdfBody(input.payload)) ELSE Raise("RuntimeError")

ConvertMarkdown ==
    /\ pc = "convert"
    /\ Lower(input.ext) = ".md"
    /\ IF input.readable THEN Parsed(MarkdownBody(input.payload)) ELSE Raise("RuntimeError")

ConvertTxt ==
    /\ pc = "convert"
    /\ Lower(input.ext) = ".txt"
    /\ IF input.readable THEN Parsed(TxtBody(input.payload)) ELSE Raise("RuntimeError")

ConvertUnsupported ==
    /\ pc = "convert"
    /\ Lower(input.ext) \notin {".docx", ".pdf", ".md", ".txt"}
    /\ Raise("ValueError")

Document(body) == <<PREAMBLE, "\n", "\n">> \o body \o <<"\n", "\n">> \o Postamble

BuildDocument ==
    /\ pc = "parsed"
    /\ full_document' = Document(content)
    /\ pc' = "built"
    /\ UNCHANGED <<input, content, raised, outfile, idx, in_list, processed_lines>>

OpenOutput ==
    /\ pc = "built"
    /\ outfile' = <<>>
    /\ pc' = "opened"
    /\ UNCHANGED <<input, content, raised, full_document, idx, in_list, processed_lines>>

WriteOutput ==
    /\ pc = "opened"
    /\ outfile' = full_document
    /\ pc' = "done"
    /\ UNCHANGED <<input, content, raised, full_document, idx, in_list, processed_lines>>

NextConvert ==
    \/ ConvertDocx
    \/ ConvertPdf
    \/ ConvertMarkdown
    \/ ConvertTxt
    \/ ConvertUnsupported
    \/ BuildDocument
    \/ OpenOutput
    \/ WriteOutput

SpecConvert == InitConvert /\ [][NextConvert]_vars

\* The human-readable text of the input file that reaches the body.
SourceText(file) ==
    CASE Lower(file.ext) = ".pdf" -> Flatten(SelectSeq(file.payload, HasText))
      [] Lower(file.ext) = ".docx" ->
            Flatten([i \in 1..Len(file.payload) |->
                IF file.payload[i].type = "paragraph"
                THEN Flatten([k \in 1..Len(file.payload[i].runs) |->
                                 file.payload[i].runs[k].text])
                ELSE Flatten([r \in 1..Len(file.payload[i].rows) |->
                                 Flatten(file.payload[i].rows[r])])])
      [] OTHER -> file.payload

\* The occurrences of c in a text with a backslash right before them, and the others.
Escaped(text, c) ==
    Cardinality({ i \in 2..Len(text) : text[i] = c /\ text[i - 1] = "\\" })
Unescaped(text, c) ==
    Cardinality({ i \in 1..Len(text) : text[i] = c /\ (i = 1 \/ text[i - 1] # "\\") })

(* C1: on each of the four paths, the text of the source that reaches the  *)
(* body has gone through _escape_latex exactly once: every '%' and '&' of  *)
(* the source is in the body as \% and \& (not bare: zero times; and with  *)
(* no \textbackslash{} before it: twice).  The '&' between the cells of a  *)
(* table row and the body that is only the PDF warning hold no source text.*)
C1_EscapedExactlyOnce ==
    (pc = "parsed" /\ ~(Lower(input.ext) = ".pdf" /\ content = WARNING)) =>
        /\ Escaped(content, "%") = Count(SourceText(input), "%")
        /\ Unescaped(content, "%") = 0
        /\ Escaped(content, "&") = Count(SourceText(input), "&")
        /\ ~Contains(content, <<"\\", "t">>)

AnyCaseSupported == {".docx", ".DOCX", ".pdf", ".Pdf", ".md", ".MD", ".txt", ".TXT"}

(* C7: the output file is touched only after the parser has returned and   *)
(* the whole document has been built; when the extension is not one of     *)
(* .docx, .pdf, .md, .txt in any case, or the parser raises, convert fails *)
(* with the file at output_path as it was (absent or unchanged) and the    *)
(* error with the caller.                                                  *)
C7_OutputOnlyAfterSuccess ==
    /\ outfile # input.existing => pc \in {"opened", "done"}
    /\ pc \in {"opened", "done"} =>
           /\ raised = "none"
           /\ input.readable
           /\ input.ext \in AnyCaseSupported
           /\ full_document = Document(content)
    /\ pc = "done" => outfile = full_document
    /\ pc = "failed" =>
           /\ outfile = input.existing
           /\ raised = (IF input.ext \in AnyCaseSupported THEN "RuntimeError" ELSE "ValueError")
    /\ (input.ext \notin AnyCaseSupported \/ ~input.readable) => pc \in {"convert", "failed"}
    /\ (input.ext \in AnyCaseSupported /\ input.readable) => pc # "failed"

\* A parser has raised with a file already at output_path.
C7_Witness ==
    /\ pc = "failed"
    /\ raised = "RuntimeError"
    /\ input.ext = ".DOCX"
    /\ input.existing = OldFile
    /\ outfile = OldFile

NoPageText(pages) == \A i \in 1..Len(pages) : pages[i] \in {NoValue, <<>>}

(* C8: on a readable PDF nothing is raised; when no page yields text (no   *)
(* pages at all included) the body is exactly the warning comment, convert *)
(* is never in its failed state and ends with the document of that body    *)
(* written; when some page yields text the body is not the warning and     *)
(* holds no comment.                                                       *)
C8_PdfWithoutText ==
    (Lower(input.ext) = ".pdf" /\ input.readable) =>
        /\ pc # "failed" /\ raised = "none"
        /\ pc \in {"convert", "parsed", "built", "opened", "done"}
        /\ pc # "convert" =>
               IF NoPageText(input.payload)
               THEN content = WARNING
               ELSE /\ content # WARNING
                    /\ ~Contains(content, WARNING)
                    /\ WellEscaped(content)
        /\ (pc = "done" /\ NoPageText(input.payload)) => outfile = Document(WARNING)

\* A PDF of two pages without text has been converted.
C8_Witness ==
    /\ pc = "done"
    /\ input.ext = ".pdf"
    /\ input.payload = <<NoValue, <<>>>>
    /\ outfile = Document(WARNING)

==========================================================================
